---------------------------- MODULE Spec2Model ----------------------------
(***************************************************************************)
(* Model of drivers/input/input_kbd_matrix.c: the keyboard matrix scan,    *)
(* ghosting detector, debounce engine and polling thread, together with    *)
(* the interrupt-side wake signal.                                         *)
(*                                                                         *)
(* 8-bit row masks are naturals below 256 with the bit operations written  *)
(* out.  A uint32_t is the pair <<hi, lo>> of its 16-bit halves, so that   *)
(* 32-bit wrap-around is exact.                                            *)
(***************************************************************************)
EXTENDS Integers, Sequences, FiniteSets, TLC

(***************************************************************************)
(* Bounds of the model.                                                    *)
(***************************************************************************)
\* Time horizon in milliseconds: no scan cycle starts after it.
MaxTimeMs == 15
\* The wake-signal counter saturates here ("this many or more").
MaxGives == 2
\* Capacity of the timestamp ring (INPUT_KBD_MATRIX_SCAN_OCURRENCES of
\* input_kbd_matrix.h, a header that is not part of the sources at hand).
INPUT_KBD_MATRIX_SCAN_OCURRENCES == 3
\* Hardware clock cycles per microsecond (sys_clock_hw_cycles_per_sec / 1e6).
CyclesPerUs == 2

USEC_PER_MSEC == 1000
INPUT_KBD_MATRIX_ROW_MASK == 255

(***************************************************************************)
(* uint8_t bit operations.                                                 *)
(***************************************************************************)
BIT(r) == 2 ^ r

TestBit(x, r) == (x \div BIT(r)) % 2 = 1

RECURSIVE BitAnd(_, _)
BitAnd(a, b) ==
    IF a = 0 \/ b = 0 THEN 0
    ELSE (IF a % 2 = 1 /\ b % 2 = 1 THEN 1 ELSE 0) + 2 * BitAnd(a \div 2, b \div 2)

RECURSIVE BitOr(_, _)
BitOr(a, b) ==
    IF a = 0 THEN b
    ELSE IF b = 0 THEN a
    ELSE (IF a % 2 = 1 \/ b % 2 = 1 THEN 1 ELSE 0) + 2 * BitOr(a \div 2, b \div 2)

RECURSIVE BitXor(_, _)
BitXor(a, b) ==
    IF a = 0 THEN b
    ELSE IF b = 0 THEN a
    ELSE (IF a % 2 # b % 2 THEN 1 ELSE 0) + 2 * BitXor(a \div 2, b \div 2)

\* (uint8_t)~x
BitNot8(x) == 255 - x

(***************************************************************************)
(* uint32_t arithmetic on <<hi, lo>>, both halves in 0..65535.             *)
(***************************************************************************)
Half == 2 ^ 16

FromNat(n) == <<(n \div Half) % Half, n % Half>>

\* a + n (mod 2^32) for a natural n < 2^31
Add32(a, n) ==
    LET lo == a[2] + (n % Half)
        hi == a[1] + (n \div Half) + (lo \div Half)
    IN  <<hi % Half, lo % Half>>

\* a - b (mod 2^32)
Sub32(a, b) ==
    LET borrow == IF a[2] < b[2] THEN 1 ELSE 0
        lo == a[2] - b[2] + borrow * Half
        hi == a[1] - b[1] - borrow
    IN  <<hi % Half, lo>>

Lt32(a, b) == a[1] < b[1] \/ (a[1] = b[1] /\ a[2] < b[2])

\* a \div d for a small natural d > 0
Div32(a, d) ==
    LET r == a[1] % d
    IN  <<a[1] \div d, (r * Half + a[2]) \div d>>

\* (uint8_t)a
Trunc8(a) == a[2] % 256

\* k_cyc_to_us_floor32(): the hardware clock runs at CyclesPerUs MHz, so the
\* conversion is the floor of a division.
k_cyc_to_us_floor32(cyc) == Div32(cyc, CyclesPerUs)

(***************************************************************************)
(* Device instances.  A configuration is the content of struct             *)
(* input_kbd_matrix_common_config.  A platform fixes what the driver meets *)
(* in its surroundings: the value of the cycle counter when the model      *)
(* starts, the time (microseconds) a scan cycle may take on top of the     *)
(* busy-waits of the scan, the time the thread may stay blocked on the     *)
(* semaphore after the wake signal, and the values api->read_row may       *)
(* return besides the row lines of the matrix.                             *)
(***************************************************************************)
\* The scenario of the specification: one key, 10 ms both ways, 1 ms poll.
CfgOneKey ==
    [col_size |-> 1, row_size |-> 1, poll_period_us |-> 1000,
     poll_timeout_ms |-> 3, debounce_down_ms |-> 10, debounce_up_ms |-> 10,
     settle_time_us |-> 50, ghostkey_check |-> FALSE]

\* Independent directions: immediate press, 50 ms release.
CfgFastDown ==
    [col_size |-> 1, row_size |-> 1, poll_period_us |-> 3000,
     poll_timeout_ms |-> 6, debounce_down_ms |-> 0, debounce_up_ms |-> 50,
     settle_time_us |-> 50, ghostkey_check |-> FALSE]

\* A 2x2 matrix with the ghosting check, Zephyr's default timings.
CfgMatrix ==
    [col_size |-> 2, row_size |-> 2, poll_period_us |-> 5000,
     poll_timeout_ms |-> 10, debounce_down_ms |-> 10, debounce_up_ms |-> 20,
     settle_time_us |-> 50, ghostkey_check |-> TRUE]

\* Debounce times the ring covers: 3 slots, at most 2 poll periods to wait;
\* the idle timeout is the release time plus one poll period.
CfgQuick ==
    [col_size |-> 1, row_size |-> 1, poll_period_us |-> 1000,
     poll_timeout_ms |-> 3, debounce_down_ms |-> 1, debounce_up_ms |-> 2,
     settle_time_us |-> 50, ghostkey_check |-> FALSE]

\* The counter starts at 0: the first scan sees counter values below 256.
PlatBoot ==
    [boot_cycles |-> <<0, 0>>, extra_us |-> {0}, idle_us |-> {0, 7000},
     stray_rows |-> {2 ^ 8}]

\* The counter wraps after 2.5 ms (5000 cycles at 2 MHz); the processing time of a cycle varies.
PlatJitter ==
    [boot_cycles |-> <<Half - 1, Half - 5000>>, extra_us |-> {0, 2500, 3500},
     idle_us |-> {0}, stray_rows |-> {}]

PlatMatrix ==
    [boot_cycles |-> <<0, 0>>, extra_us |-> {0}, idle_us |-> {0},
     stray_rows |-> {}]

\* A cycle may be held up for 2.5 ms (the thread is preempted, or blocks in
\* input_report); the counter wraps 1050 us after the model starts.
PlatStall ==
    [boot_cycles |-> <<Half - 1, Half - 1050 * CyclesPerUs>>,
     extra_us |-> {0, 2500}, idle_us |-> {0}, stray_rows |-> {}]

Setups ==
    { <<CfgOneKey, PlatBoot>>, <<CfgFastDown, PlatJitter>>,
      <<CfgMatrix, PlatMatrix>>, <<CfgQuick, PlatBoot>>,
      <<CfgQuick, PlatStall>> }

VARIABLES
    cfg,                    \* struct input_kbd_matrix_common_config
    plat,                   \* the platform (see above)
    clock,                  \* hardware cycles elapsed since the model started
    pc,                     \* position of the polling thread
    poll_lock,              \* count of the semaphore data->poll_lock
    detect_mode,            \* last argument of api->set_detect_mode
    drive,                  \* last argument of api->drive_column
    matrix_new_state,       \* cfg->matrix_new_state[col]
    matrix_previous_state,  \* cfg->matrix_previous_state[col]
    matrix_unstable_state,  \* cfg->matrix_unstable_state[col]
    matrix_stable_state,    \* cfg->matrix_stable_state[col]
    scan_cycle_idx,         \* cfg->scan_cycle_idx[col * row_size + row]
    scan_clk_cycle,         \* data->scan_clk_cycle[slot]
    scan_cycles_idx,        \* data->scan_cycles_idx
    poll_time_end,          \* deadline of input_kbd_matrix_poll (uptime, us)
    wait_period_us,         \* argument of the pending k_usleep
    reports,                \* input reports of the last scan cycle, in order
    \* history variables, read by the properties only
    scans,                  \* scan cycles run so far
    gives,                  \* wake signals since the last k_sem_take returned
    key_pressed,            \* result of the last input_kbd_matrix_check_key_events
    vetoed,                 \* the last scan cycle was aborted for ghosting
    elapsed_us,             \* processing time of the last scan cycle
    update_clock,           \* clock at which the last debounce pass read the counter
    settled,                \* keys whose debounce window closed in the last cycle
    raw_since,              \* per key: clock of the pass that last saw it change
    reported_since,         \* per key: transitions emitted since that change
    last_event,             \* per key: the last transition emitted, if any
    scan_col,               \* input_kbd_matrix_scan: the loop variable col
    scan_key_event,         \* input_kbd_matrix_scan: the accumulator key_event
    api_calls               \* api calls of the last (or running) scan, in order

vars ==
    <<cfg, plat, clock, pc, poll_lock, detect_mode, drive, matrix_new_state,
      matrix_previous_state, matrix_unstable_state, matrix_stable_state,
      scan_cycle_idx, scan_clk_cycle, scan_cycles_idx, poll_time_end,
      wait_period_us, reports, scans, gives, key_pressed, vetoed,
      elapsed_us, update_clock, settled, raw_since, reported_since,
      last_event, scan_col, scan_key_event, api_calls>>

Cols == 0 .. cfg.col_size - 1
Rows == 0 .. cfg.row_size - 1
Keys == 0 .. cfg.col_size * cfg.row_size - 1
Slots == 0 .. INPUT_KBD_MATRIX_SCAN_OCURRENCES - 1

\* k_cycle_get_32() when `t` cycles have elapsed.
k_cycle_get_32(t) == Add32(plat.boot_cycles, t)

\* Kernel uptime in microseconds when `t` cycles have elapsed.
UptimeUs(t) == t \div CyclesPerUs

\* sys_timepoint_calc(K_MSEC(ms)) at time t.
sys_timepoint_calc(t, ms) == UptimeUs(t) + ms * USEC_PER_MSEC

\* sys_timepoint_expired(tp) at time t.
sys_timepoint_expired(t, tp) == UptimeUs(t) >= tp

(***************************************************************************)
(* input_kbd_matrix_ghosting                                               *)
(***************************************************************************)
\* variant: any common row counts as a block
MoreThanOneBitNonZero(z) == z # 0

\* z & (z - 1): non-zero only if z has more than one bit set
MoreThanOneBit(z) == BitAnd(z, z - 1) # 0

\* variant: the inner loop starts one column too far
FirstNextColSkips(c) == c + 2

\* first column the inner loop pairs with column c
FirstNextCol(c) == c + 1

RECURSIVE GhostingInner(_, _, _)
GhostingInner(state, c, c_next) ==
    IF c_next >= cfg.col_size THEN FALSE
    ELSE LET common_row_bits == BitAnd(state[c], state[c_next])
         IN  IF MoreThanOneBit(common_row_bits) THEN TRUE
             ELSE GhostingInner(state, c, c_next + 1)

RECURSIVE GhostingOuter(_, _)
GhostingOuter(state, c) ==
    IF c >= cfg.col_size THEN FALSE
    ELSE IF state[c] = 0 THEN GhostingOuter(state, c + 1)
    ELSE IF GhostingInner(state, c, FirstNextCol(c)) THEN TRUE
    ELSE GhostingOuter(state, c + 1)

input_kbd_matrix_ghosting(state) == GhostingOuter(state, 0)

(***************************************************************************)
(* input_kbd_matrix_scan: `read` gives, per column, what api->read_row     *)
(* returns once that column is driven.                                     *)
(***************************************************************************)
\* Values api->read_row may return: the row lines, or a line above bit 7
\* where the platform has one.
ReadRowValues == (0 .. 2 ^ cfg.row_size - 1) \cup plat.stray_rows

\* variant: the reading is stored without the mask
ScanRowUnmasked(read, col) == read[col]

ScanRow(read, col) == BitAnd(read[col], INPUT_KBD_MATRIX_ROW_MASK)

ScanNewState(read) == [col \in Cols |-> ScanRow(read, col)]

\* the api calls of the scan, in the order the loop makes them
RECURSIVE ScanCalls(_, _)
ScanCalls(read, c) ==
    IF c >= cfg.col_size
    THEN << [op |-> "drive_column", arg |-> "NONE"] >>
    ELSE << [op |-> "drive_column", arg |-> c],
            [op |-> "read_row", arg |-> read[c]] >> \o ScanCalls(read, c + 1)

RECURSIVE ScanKeyEvent(_, _, _)
ScanKeyEvent(read, col, key_event) ==
    IF col >= cfg.col_size THEN key_event
    ELSE ScanKeyEvent(read, col + 1, BitOr(key_event, ScanRow(read, col)))

input_kbd_matrix_scan(read) == ScanKeyEvent(read, 0, 0) # 0

\* time the scan spends in k_busy_wait, in cycles
ScanBusyCycles == cfg.col_size * cfg.settle_time_us * CyclesPerUs

(***************************************************************************)
(* input_kbd_matrix_update_state, first loop: gather the key changes.      *)
(***************************************************************************)
RowChanged(new, prev, c) == BitXor(new[c], prev[c])

CycIdx(c, r) == c * cfg.row_size + r

ColOf(k) == k \div cfg.row_size
RowOf(k) == k % cfg.row_size

KeyChanged(new, prev, k) == TestBit(RowChanged(new, prev, ColOf(k)), RowOf(k))

GatherIdx(new, prev, idx, cur) ==
    [k \in Keys |-> IF KeyChanged(new, prev, k) THEN cur ELSE idx[k]]

\* variant: the changed keys are not marked unstable
GatherUnstableKeeps(new, prev, unst) == unst

GatherUnstable(new, prev, unst) ==
    [c \in Cols |-> BitOr(unst[c], RowChanged(new, prev, c))]

GatherPrevious(new, prev) ==
    [c \in Cols |-> IF RowChanged(new, prev, c) = 0 THEN prev[c] ELSE new[c]]

(***************************************************************************)
(* input_kbd_matrix_update_state, second loop: debounce each unstable key. *)
(* Of the record st the loop changes unstable, stable, reports, settled.   *)
(***************************************************************************)
\* uint8_t scan_clk_cycle = data->scan_clk_cycle[scan_cyc_idx];
\* uint32_t debt = k_cyc_to_us_floor32(cycles_now - scan_clk_cycle);
DebounceTime(cycles_now, stamp) ==
    k_cyc_to_us_floor32(Sub32(cycles_now, FromNat(Trunc8(stamp))))

\* row_bit ? cfg->debounce_down_ms : cfg->debounce_up_ms
DebounceThreshold(row_bit) ==
    IF row_bit # 0 THEN cfg.debounce_down_ms ELSE cfg.debounce_up_ms

\* debt < threshold: the key needs more time
NeedsMoreTime(debt, row_bit) == Lt32(debt, FromNat(DebounceThreshold(row_bit)))

\* cfg->matrix_unstable_state[c] &= ~row_bit
ClearUnstable(unst_c, row_bit) == BitAnd(unst_c, BitNot8(row_bit))

\* variant: the whole column is compared, not the key's bit
StableUnchangedColumn(stable_c, mask, row_bit) == stable_c = row_bit

\* variant: the comparison with the stable state is left out
StableUnchangedNever(stable_c, mask, row_bit) == FALSE

\* (cfg->matrix_stable_state[c] & mask) == row_bit
StableUnchanged(stable_c, mask, row_bit) == BitAnd(stable_c, mask) = row_bit

\* variant: the key report carries the level the key is leaving
KeyReportsOldLevel(c, r, row_bit) ==
    << [code |-> "INPUT_ABS_X", value |-> c, sync |-> FALSE],
       [code |-> "INPUT_ABS_Y", value |-> r, sync |-> FALSE],
       [code |-> "INPUT_BTN_TOUCH", value |-> BIT(r) - row_bit, sync |-> TRUE] >>

\* variant: column and row are reported the other way round
KeyReportsSwapped(c, r, row_bit) ==
    << [code |-> "INPUT_ABS_X", value |-> r, sync |-> FALSE],
       [code |-> "INPUT_ABS_Y", value |-> c, sync |-> FALSE],
       [code |-> "INPUT_BTN_TOUCH", value |-> row_bit, sync |-> TRUE] >>

\* the three input reports of one confirmed transition
KeyReports(c, r, row_bit) ==
    << [code |-> "INPUT_ABS_X", value |-> c, sync |-> FALSE],
       [code |-> "INPUT_ABS_Y", value |-> r, sync |-> FALSE],
       [code |-> "INPUT_BTN_TOUCH", value |-> row_bit, sync |-> TRUE] >>

DebounceKey(st, new, idx, clk, cycles_now, c, r) ==
    LET mask == BIT(r)
        row_bit == BitAnd(new[c], mask)
        debt == DebounceTime(cycles_now, clk[idx[CycIdx(c, r)]])
    IN  IF NeedsMoreTime(debt, row_bit) THEN st
        ELSE LET st1 == [st EXCEPT !.unstable[c] = ClearUnstable(@, row_bit),
                                   !.settled = @ \cup {CycIdx(c, r)}]
             IN  IF StableUnchanged(st.stable[c], mask, row_bit) THEN st1
                 ELSE [st1 EXCEPT !.stable[c] = BitXor(@, mask),
                                  !.reports = @ \o KeyReports(c, r, row_bit)]

\* rows are visited in increasing order
NextRow(r) == r + 1

RECURSIVE DebounceRows(_, _, _, _, _, _, _)
DebounceRows(st, deb_col, new, idx, clk, cycles_now, cr) ==
    LET c == cr[1]
        r == cr[2]
    IN  IF r < 0 \/ r >= cfg.row_size THEN st
        ELSE DebounceRows(IF TestBit(deb_col, r)
                            THEN DebounceKey(st, new, idx, clk, cycles_now, c, r)
                            ELSE st,
                          deb_col, new, idx, clk, cycles_now, <<c, NextRow(r)>>)

RECURSIVE DebounceCols(_, _, _, _, _, _)
DebounceCols(st, new, idx, clk, cycles_now, c) ==
    IF c >= cfg.col_size THEN st
    ELSE LET deb_col == st.unstable[c]
         IN  DebounceCols(IF deb_col = 0 THEN st
                          ELSE DebounceRows(st, deb_col, new, idx, clk,
                                            cycles_now, <<c, 0>>),
                          new, idx, clk, cycles_now, c + 1)

\* input_kbd_matrix_update_state at clock t, with the ring cursor at `cur`
input_kbd_matrix_update_state(new, cur, t) ==
    LET cycles_now == k_cycle_get_32(t)
        clk == [scan_clk_cycle EXCEPT ![cur] = cycles_now]
        idx == GatherIdx(new, matrix_previous_state, scan_cycle_idx, cur)
        st0 == [previous |-> GatherPrevious(new, matrix_previous_state),
                unstable |-> GatherUnstable(new, matrix_previous_state,
                                            matrix_unstable_state),
                stable |-> matrix_stable_state,
                idx |-> idx,
                clk |-> clk,
                reports |-> <<>>,
                settled |-> {},
                since |-> [k \in Keys |->
                             IF KeyChanged(new, matrix_previous_state, k)
                             THEN t ELSE raw_since[k]]]
    IN  DebounceCols(st0, new, idx, clk, cycles_now, 0)

(***************************************************************************)
(* input_kbd_matrix_check_key_events                                       *)
(***************************************************************************)
\* if (++data->scan_cycles_idx >= INPUT_KBD_MATRIX_SCAN_OCURRENCES) idx = 0
NextScanCyclesIdx(i) ==
    IF i + 1 >= INPUT_KBD_MATRIX_SCAN_OCURRENCES THEN 0 ELSE i + 1

\* variant: the update is also skipped by a cycle that is about to leave
\* the loop (no key read, deadline passed)
GhostingAbortOrLeaving(new) ==
    \/ cfg.ghostkey_check /\ input_kbd_matrix_ghosting(new)
    \/ /\ \A c \in Cols : new[c] = 0
       /\ sys_timepoint_expired(clock, poll_time_end)

\* cfg->ghostkey_check && input_kbd_matrix_ghosting(dev)
GhostingAbort(new) == cfg.ghostkey_check /\ input_kbd_matrix_ghosting(new)

\* variant: the abort forgets the keys that were waiting for their threshold
SkippedUpdateForgets ==
    [previous |-> matrix_previous_state,
     unstable |-> [c \in Cols |-> 0],
     stable |-> matrix_stable_state,
     idx |-> scan_cycle_idx,
     clk |-> scan_clk_cycle,
     reports |-> <<>>,
     settled |-> {},
     since |-> raw_since]

\* what a cycle aborted for ghosting leaves behind
SkippedUpdate ==
    [previous |-> matrix_previous_state,
     unstable |-> matrix_unstable_state,
     stable |-> matrix_stable_state,
     idx |-> scan_cycle_idx,
     clk |-> scan_clk_cycle,
     reports |-> <<>>,
     settled |-> {},
     since |-> raw_since]

input_kbd_matrix_check_key_events(read, t) ==
    LET cur == NextScanCyclesIdx(scan_cycles_idx)
        new == ScanNewState(read)
        abort == GhostingAbort(new)
    IN  [cur |-> cur,
         new |-> new,
         key_pressed |-> input_kbd_matrix_scan(read),
         abort |-> abort,
         upd |-> IF abort THEN SkippedUpdate
                 ELSE input_kbd_matrix_update_state(new, cur, t)]

(***************************************************************************)
(* input_kbd_matrix_poll                                                   *)
(***************************************************************************)
ToNat(a) == a[1] * Half + a[2]

\* the sleep of one loop iteration, from the measured cycles_diff
WaitPeriodUs(cycles_diff) ==
    LET period == FromNat(cfg.poll_period_us)
        w0 == Sub32(period, k_cyc_to_us_floor32(cycles_diff))
        \* Wait for at least 1ms
        w1 == IF Lt32(w0, FromNat(USEC_PER_MSEC)) THEN FromNat(USEC_PER_MSEC) ELSE w0
        \* a larger number: the whole poll period is used
        w2 == IF Lt32(period, w1) THEN period ELSE w1
    IN  ToNat(w2)

\* variant: the deadline alone decides, whatever the scan saw
PollBreakOnDeadline(pressed, t) == sys_timepoint_expired(t, poll_time_end)

\* else if (sys_timepoint_expired(poll_time_end)) break;
PollBreak(pressed, t) == ~pressed /\ sys_timepoint_expired(t, poll_time_end)

\* variant: the wake path is armed and disarmed the wrong way round
set_detect_mode_inverted(enabled) ==
    IF enabled THEN "disabled" ELSE "enabled"

\* api->set_detect_mode(dev, enabled): the mode the platform is left in
set_detect_mode(enabled) == IF enabled THEN "enabled" ELSE "disabled"

\* variant: a counting semaphore without the limit
k_sem_give_unlimited(count, limit) == count + 1

\* k_sem_give on a semaphore of the given limit
k_sem_give(count, limit) == IF count < limit THEN count + 1 ELSE count

Min(a, b) == IF a < b THEN a ELSE b

\* the last of the first n transitions of `rep` that is about key k, else `old`
RECURSIVE LastEvent(_, _, _, _)
LastEvent(rep, n, k, old) ==
    IF n = 0 THEN old
    ELSE IF CycIdx(rep[3 * n - 2].value, rep[3 * n - 1].value) = k
         THEN (IF rep[3 * n].value # 0 THEN "pressed" ELSE "released")
         ELSE LastEvent(rep, n - 1, k, old)

Zeros(S) == [x \in S |-> 0]

Init ==
    /\ \E su \in Setups : cfg = su[1] /\ plat = su[2]
    /\ clock = 0
    /\ pc = "arm"
    /\ poll_lock = 0
    /\ detect_mode = "unset"
    /\ drive = "unset"
    /\ matrix_new_state = Zeros(Cols)
    /\ matrix_previous_state = Zeros(Cols)
    /\ matrix_unstable_state = Zeros(Cols)
    /\ matrix_stable_state = Zeros(Cols)
    /\ scan_cycle_idx = Zeros(Keys)
    /\ scan_clk_cycle = [s \in Slots |-> <<0, 0>>]
    /\ scan_cycles_idx = 0
    /\ poll_time_end = 0
    /\ wait_period_us = 0
    /\ reports = <<>>
    /\ scans = 0
    /\ gives = 0
    /\ key_pressed = FALSE
    /\ vetoed = FALSE
    /\ elapsed_us = 0
    /\ update_clock = 0
    /\ settled = {}
    /\ raw_since = [k \in Keys |-> -1]
    /\ reported_since = Zeros(Keys)
    /\ last_event = [k \in Keys |-> "none"]
    /\ scan_col = 0
    /\ scan_key_event = 0
    /\ api_calls = <<>>

matrix_vars ==
    <<matrix_new_state, matrix_previous_state, matrix_unstable_state,
      matrix_stable_state, scan_cycle_idx, scan_clk_cycle, scan_cycles_idx>>

cycle_vars ==
    <<reports, scans, key_pressed, vetoed, elapsed_us, update_clock, settled,
      raw_since, reported_since, last_event, scan_col, scan_key_event, api_calls>>

\* input_kbd_matrix_poll_start, from interrupt context
PollStart ==
    /\ poll_lock' = k_sem_give(poll_lock, 1)
    /\ gives' = Min(gives + 1, MaxGives)
    /\ UNCHANGED <<cfg, plat, clock, pc, detect_mode, drive, matrix_vars,
                   poll_time_end, wait_period_us, reports, scans, key_pressed,
                   vetoed, elapsed_us, update_clock, settled, raw_since,
                   reported_since, last_event, scan_col, scan_key_event, api_calls>>

\* polling thread: api->drive_column(dev, INPUT_KBD_MATRIX_COLUMN_DRIVE_ALL)
ThreadArm ==
    /\ pc = "arm"
    /\ drive' = "ALL"
    /\ pc' = "detect"
    /\ UNCHANGED <<cfg, plat, clock, poll_lock, detect_mode, matrix_vars,
                   poll_time_end, wait_period_us, gives, cycle_vars>>

\* polling thread: api->set_detect_mode(dev, true)
ThreadDetect ==
    /\ pc = "detect"
    /\ detect_mode' = set_detect_mode(TRUE)
    /\ pc' = "take"
    /\ UNCHANGED <<cfg, plat, clock, poll_lock, drive, matrix_vars,
                   poll_time_end, wait_period_us, gives, cycle_vars>>

\* polling thread: k_sem_take(&data->poll_lock, K_FOREVER) returns
ThreadTake ==
    /\ pc = "take"
    /\ poll_lock > 0
    /\ poll_lock' = poll_lock - 1
    /\ gives' = 0
    /\ \E idle \in plat.idle_us : clock' = clock + idle * CyclesPerUs
    /\ pc' = "disarm"
    /\ UNCHANGED <<cfg, plat, detect_mode, drive, matrix_vars, poll_time_end,
                   wait_period_us, cycle_vars>>

\* polling thread: set_detect_mode(false), then input_kbd_matrix_poll starts
ThreadDisarm ==
    /\ pc = "disarm"
    /\ detect_mode' = set_detect_mode(FALSE)
    /\ poll_time_end' = sys_timepoint_calc(clock, cfg.poll_timeout_ms)
    /\ pc' = "poll"
    /\ UNCHANGED <<cfg, plat, clock, poll_lock, drive, matrix_vars,
                   wait_period_us, gives, cycle_vars>>

\* one iteration of the loop of input_kbd_matrix_poll, up to k_usleep or break
PollCycle ==
    /\ pc = "poll"
    /\ UptimeUs(clock) < MaxTimeMs * USEC_PER_MSEC
    /\ \E read \in [Cols -> ReadRowValues], extra \in plat.extra_us :
         LET start_period_cycles == k_cycle_get_32(clock)
             t1 == clock + ScanBusyCycles
             t2 == t1 + extra * CyclesPerUs
             current_cycles == k_cycle_get_32(t2)
             cycles_diff == Sub32(current_cycles, start_period_cycles)
         IN  \E ev \in {input_kbd_matrix_check_key_events(read, t1)} :
             /\ scan_cycles_idx' = ev.cur
             /\ matrix_new_state' = ev.new
             /\ drive' = "NONE"
             /\ matrix_previous_state' = ev.upd.previous
             /\ matrix_unstable_state' = ev.upd.unstable
             /\ matrix_stable_state' = ev.upd.stable
             /\ scan_cycle_idx' = ev.upd.idx
             /\ scan_clk_cycle' = ev.upd.clk
             /\ reports' = ev.upd.reports
             /\ settled' = ev.upd.settled
             /\ raw_since' = ev.upd.since
             /\ reported_since' =
                    [k \in Keys |->
                       (IF ev.upd.since[k] # raw_since[k] THEN 0
                        ELSE reported_since[k])
                       + Cardinality({i \in 1 .. Len(ev.upd.reports) \div 3 :
                            CycIdx(ev.upd.reports[3 * i - 2].value,
                                   ev.upd.reports[3 * i - 1].value) = k})]
             /\ last_event' =
                    [k \in Keys |->
                       LastEvent(ev.upd.reports, Len(ev.upd.reports) \div 3,
                                 k, last_event[k])]
             /\ scan_col' = cfg.col_size
             /\ scan_key_event' = ScanKeyEvent(read, 0, 0)
             /\ api_calls' = ScanCalls(read, 0)
             /\ vetoed' = ev.abort
             /\ update_clock' = IF ev.abort THEN update_clock ELSE t1
             /\ key_pressed' = ev.key_pressed
             /\ poll_time_end' = IF ev.key_pressed
                                 THEN sys_timepoint_calc(t2, cfg.poll_timeout_ms)
                                 ELSE poll_time_end
             /\ elapsed_us' = (t2 - clock) \div CyclesPerUs
             /\ clock' = t2
             /\ IF PollBreak(ev.key_pressed, t2)
                  THEN pc' = "arm" /\ wait_period_us' = wait_period_us
                  ELSE pc' = "sleep" /\ wait_period_us' = WaitPeriodUs(cycles_diff)
    /\ scans' = scans + 1
    /\ UNCHANGED <<cfg, plat, poll_lock, detect_mode, gives>>

\* k_usleep(wait_period_us) returns
PollSleep ==
    /\ pc = "sleep"
    /\ clock' = clock + wait_period_us * CyclesPerUs
    /\ pc' = "poll"
    /\ UNCHANGED <<cfg, plat, poll_lock, detect_mode, drive, matrix_vars,
                   poll_time_end, wait_period_us, gives, cycle_vars>>

Next ==
    \/ PollStart
    \/ ThreadArm
    \/ ThreadDetect
    \/ ThreadTake
    \/ ThreadDisarm
    \/ PollCycle
    \/ PollSleep

Spec == Init /\ [][Next]_vars

(***************************************************************************)
(* input_kbd_matrix_ghosting on its own: the detector is called on every   *)
(* snapshot a scan of a 3x3 matrix can leave in matrix_new_state.          *)
(***************************************************************************)
CfgGhost ==
    [col_size |-> 3, row_size |-> 3, poll_period_us |-> 5000,
     poll_timeout_ms |-> 10, debounce_down_ms |-> 10, debounce_up_ms |-> 20,
     settle_time_us |-> 50, ghostkey_check |-> TRUE]

\* everything but cfg, plat and matrix_new_state, as after construction
InitRest ==
    /\ clock = 0
    /\ poll_lock = 0
    /\ detect_mode = "unset"
    /\ drive = "unset"
    /\ matrix_previous_state = Zeros(Cols)
    /\ matrix_unstable_state = Zeros(Cols)
    /\ matrix_stable_state = Zeros(Cols)
    /\ scan_cycle_idx = Zeros(Keys)
    /\ scan_clk_cycle = [s \in Slots |-> <<0, 0>>]
    /\ scan_cycles_idx = 0
    /\ poll_time_end = 0
    /\ wait_period_us = 0
    /\ reports = <<>>
    /\ scans = 0
    /\ gives = 0
    /\ key_pressed = FALSE
    /\ vetoed = FALSE
    /\ elapsed_us = 0
    /\ update_clock = 0
    /\ settled = {}
    /\ raw_since = [k \in Keys |-> -1]
    /\ reported_since = Zeros(Keys)
    /\ last_event = [k \in Keys |-> "none"]
    /\ scan_col = 0
    /\ scan_key_event = 0
    /\ api_calls = <<>>

InitGhost ==
    /\ cfg = CfgGhost
    /\ plat = PlatMatrix
    /\ matrix_new_state \in [Cols -> 0 .. 2 ^ cfg.row_size - 1]
    /\ pc = "ghosting"
    /\ InitRest

\* if (cfg->ghostkey_check && input_kbd_matrix_ghosting(dev))
GhostingCall ==
    /\ pc = "ghosting"
    /\ vetoed' = GhostingAbort(matrix_new_state)
    /\ pc' = "ghosting_done"
    /\ UNCHANGED <<cfg, plat, clock, poll_lock, detect_mode, drive, matrix_vars,
                   poll_time_end, wait_period_us, gives, reports, scans,
                   key_pressed, elapsed_us, update_clock, settled, raw_since,
                   reported_since, last_event, scan_col, scan_key_event,
                   api_calls>>

NextGhost == GhostingCall

SpecGhost == InitGhost /\ [][NextGhost]_vars

(***************************************************************************)
(* input_kbd_matrix_scan statement by statement: the scan of the first     *)
(* cycle after the wake, and the scan of the cycle after a first cycle     *)
(* that was vetoed for ghosting (all rows read in all columns).            *)
(***************************************************************************)
ScanSetups == { <<CfgMatrix, PlatMatrix>>, <<CfgGhost, PlatBoot>> }

\* the snapshot in which every key of the matrix reads pressed
AllRows == [c \in Cols |-> 2 ^ cfg.row_size - 1]

InitScan ==
    /\ \E su \in ScanSetups : cfg = su[1] /\ plat = su[2]
    /\ pc = "scan_drive"
    /\ poll_lock = 0
    /\ detect_mode = "disabled"
    /\ matrix_previous_state = Zeros(Cols)
    /\ matrix_unstable_state = Zeros(Cols)
    /\ matrix_stable_state = Zeros(Cols)
    /\ scan_cycle_idx = Zeros(Keys)
    /\ scan_clk_cycle = [s \in Slots |-> <<0, 0>>]
    /\ wait_period_us = 0
    /\ reports = <<>>
    /\ gives = 0
    /\ elapsed_us = 0
    /\ update_clock = 0
    /\ settled = {}
    /\ raw_since = [k \in Keys |-> -1]
    /\ reported_since = Zeros(Keys)
    /\ last_event = [k \in Keys |-> "none"]
    /\ scan_col = 0
    /\ scan_key_event = 0
    /\ api_calls = <<>>
    /\ \/ \* first cycle: ++scan_cycles_idx has run, nothing else
          /\ matrix_new_state = Zeros(Cols)
          /\ scan_cycles_idx = NextScanCyclesIdx(0)
          /\ drive = "ALL"
          /\ clock = 0
          /\ poll_time_end = sys_timepoint_calc(0, cfg.poll_timeout_ms)
          /\ scans = 0
          /\ key_pressed = FALSE
          /\ vetoed = FALSE
       \/ \* second cycle, the first one vetoed and slept through
          /\ matrix_new_state = AllRows
          /\ scan_cycles_idx = NextScanCyclesIdx(NextScanCyclesIdx(0))
          /\ drive = "NONE"
          /\ clock = cfg.poll_period_us * CyclesPerUs
          /\ poll_time_end = sys_timepoint_calc(ScanBusyCycles, cfg.poll_timeout_ms)
          /\ scans = 1
          /\ key_pressed = TRUE
          /\ vetoed = TRUE

\* what the scan statements leave alone
scan_frame ==
    <<cfg, plat, poll_lock, detect_mode, matrix_previous_state,
      matrix_unstable_state, matrix_stable_state, scan_cycle_idx,
      scan_clk_cycle, scan_cycles_idx, poll_time_end, wait_period_us, reports,
      scans, gives, vetoed, elapsed_us, update_clock, settled, raw_since,
      reported_since, last_event>>

\* api->drive_column(dev, col); k_busy_wait(cfg->settle_time_us)
ScanDrive ==
    /\ pc = "scan_drive"
    /\ scan_col < cfg.col_size
    /\ drive' = scan_col
    /\ api_calls' = Append(api_calls, [op |-> "drive_column", arg |-> scan_col])
    /\ clock' = clock + cfg.settle_time_us * CyclesPerUs
    /\ pc' = "scan_read"
    /\ UNCHANGED <<scan_frame, matrix_new_state, scan_col, scan_key_event,
                   key_pressed>>

\* row = api->read_row(dev) & MASK; matrix_new_state[col] = row;
\* key_event |= row; col++
ScanRead ==
    /\ pc = "scan_read"
    /\ \E value \in ReadRowValues :
          LET row == ScanRow(scan_col :> value, scan_col)
          IN  /\ api_calls' = Append(api_calls, [op |-> "read_row", arg |-> value])
              /\ matrix_new_state' = [matrix_new_state EXCEPT ![scan_col] = row]
              /\ scan_key_event' = BitOr(scan_key_event, row)
    /\ scan_col' = scan_col + 1
    /\ pc' = "scan_drive"
    /\ UNCHANGED <<scan_frame, clock, drive, key_pressed>>

\* api->drive_column(dev, INPUT_KBD_MATRIX_COLUMN_DRIVE_NONE);
\* return key_event != 0U
ScanReturn ==
    /\ pc = "scan_drive"
    /\ scan_col >= cfg.col_size
    /\ drive' = "NONE"
    /\ api_calls' = Append(api_calls, [op |-> "drive_column", arg |-> "NONE"])
    /\ key_pressed' = (scan_key_event # 0)
    /\ pc' = "scan_done"
    /\ UNCHANGED <<scan_frame, clock, matrix_new_state, scan_col, scan_key_event>>

NextScan ==
    \/ ScanDrive
    \/ ScanRead
    \/ ScanReturn

SpecScan == InitScan /\ [][NextScan]_vars

(***************************************************************************)
(* Vocabulary of the properties.                                           *)
(***************************************************************************)
\* confirmed transitions of the last scan cycle, in the order emitted
NumTransitions == Len(reports) \div 3

Transition(i) ==
    [col |-> reports[3 * i - 2].value,
     row |-> reports[3 * i - 1].value,
     pressed |-> reports[3 * i].value # 0]

Transitions == [i \in 1 .. NumTransitions |-> Transition(i)]

\* the last scan cycle emitted a transition for key k
Reported(k) ==
    \E i \in 1 .. NumTransitions :
        CycIdx(Transition(i).col, Transition(i).row) = k

\* raw level of key k in a snapshot
Level(state, k) == TestBit(state[ColOf(k)], RowOf(k))

\* the debounce time the configuration asks for a level, in microseconds
ThresholdUs(pressed) ==
    (IF pressed THEN cfg.debounce_down_ms ELSE cfg.debounce_up_ms) * USEC_PER_MSEC

\* time, at the last debounce pass, since key k's raw level last changed
StableUs(k) == (update_clock - raw_since[k]) \div CyclesPerUs

\* a scan cycle has just run (the thread is about to sleep or has left the loop)
AfterCycle == scans > 0 /\ pc \in {"sleep", "arm"}

(***************************************************************************)
(* C1  Debounce minimum time: a confirmed transition is emitted for a key  *)
(* only if the time between the cycle in which its raw level last changed  *)
(* and the emitting cycle is at least debounce_down_time (key pressed) or  *)
(* debounce_up_time (key released).                                        *)
(***************************************************************************)
C1_DebounceMinimumTime ==
    \A i \in 1 .. NumTransitions :
        StableUs(CycIdx(Transition(i).col, Transition(i).row))
            >= ThresholdUs(Transition(i).pressed)

(***************************************************************************)
(* C2  Bounce suppression: while a key's raw level, as seen by successive  *)
(* non-vetoed scan cycles, changes again before the debounce threshold of  *)
(* its level has passed since its previous change, no confirmed transition *)
(* is emitted for that key.                                                *)
(***************************************************************************)
\* a scan cycle that ran the debounce pass
UpdateStep == scans' = scans + 1 /\ ~vetoed'

\* key k's raw level changed in this cycle, sooner after its previous change
\* than the threshold of the level it changed to
BouncedAgain(k) ==
    /\ raw_since[k] >= 0
    /\ raw_since'[k] # raw_since[k]
    /\ (raw_since'[k] - raw_since[k]) \div CyclesPerUs
           < ThresholdUs(Level(matrix_new_state', k))

C2_BounceSuppression ==
    [][\A k \in Keys : (UpdateStep /\ BouncedAgain(k)) => ~Reported(k)']_vars

(***************************************************************************)
(* C3  Eventual single confirmation: once a key's raw level has stayed     *)
(* the same, over non-vetoed cycles, for the threshold of that level, the  *)
(* confirmed state equals it; at most one transition was emitted for the   *)
(* key since that level appeared (exactly one if it differed from the      *)
(* confirmed state); every transition carries the raw level read in the    *)
(* emitting cycle; and a key confirmed at its raw level gets no further    *)
(* transition while the level stays.                                       *)
(***************************************************************************)
C3_SettledMeansConfirmed ==
    \A k \in Keys :
        (raw_since[k] >= 0
            /\ StableUs(k) >= ThresholdUs(Level(matrix_previous_state, k)))
        => Level(matrix_stable_state, k) = Level(matrix_previous_state, k)

C3_FinalLevelReported ==
    \A i \in 1 .. NumTransitions :
        LET k == CycIdx(Transition(i).col, Transition(i).row)
        IN  /\ Transition(i).pressed = Level(matrix_new_state, k)
            /\ Transition(i).pressed = Level(matrix_stable_state, k)

C3_SingleConfirmation ==
    /\ C3_SettledMeansConfirmed
    /\ C3_FinalLevelReported
    /\ \A k \in Keys :
           /\ reported_since[k] <= 1
           /\ (reported_since[k] = 1
                  => Level(matrix_stable_state, k) = Level(matrix_previous_state, k))

\* a key held for its (non-zero) threshold, reported once, quiet in the last cycle
C3_Witness ==
    \E k \in Keys :
        /\ AfterCycle /\ ~vetoed /\ reports = <<>>
        /\ Level(matrix_previous_state, k)
        /\ ThresholdUs(TRUE) > 0
        /\ StableUs(k) >= ThresholdUs(TRUE)
        /\ reported_since[k] = 1
        /\ Level(matrix_stable_state, k)

(***************************************************************************)
(* C4  Independent debounce directions: the threshold is selected by the   *)
(* current raw level.  With debounce_down_time = 0 and debounce_up_time =  *)
(* 50 ms a press is confirmed in the cycle that sees the pressed level     *)
(* (no later than the following one), and a release is confirmed only      *)
(* after the released level has been stable for 50 ms.                     *)
(***************************************************************************)
\* a key with a zero threshold for its level is confirmed by the pass that
\* reads that level
C4_ImmediateWhenZero ==
    \A k \in Keys :
        (AfterCycle /\ ~vetoed
            /\ ThresholdUs(Level(matrix_new_state, k)) = 0)
        => Level(matrix_stable_state, k) = Level(matrix_new_state, k)

\* a release is reported only after the released level held for its threshold
C4_ReleaseWaits ==
    \A i \in 1 .. NumTransitions :
        ~Transition(i).pressed
        => StableUs(CycIdx(Transition(i).col, Transition(i).row))
               >= cfg.debounce_up_ms * USEC_PER_MSEC

C4_IndependentDirections ==
    (cfg.debounce_down_ms = 0 /\ cfg.debounce_up_ms = 50)
    => (C4_ImmediateWhenZero /\ C4_ReleaseWaits)

(***************************************************************************)
(* C5  Ghosting veto: with the ghosting check enabled, a scan cycle whose  *)
(* snapshot has two columns sharing two or more active rows emits no       *)
(* confirmed transition and skips the debounce pass; a cycle whose         *)
(* snapshot has no such pair runs the debounce pass again.                 *)
(***************************************************************************)
\* two columns share two or more active rows
GhostBlock(state) ==
    \E c1, c2 \in Cols : \E r1, r2 \in 0 .. 7 :
        /\ c1 < c2 /\ r1 < r2
        /\ TestBit(state[c1], r1) /\ TestBit(state[c1], r2)
        /\ TestBit(state[c2], r1) /\ TestBit(state[c2], r2)

C5_GhostingVeto ==
    (scans > 0 /\ cfg.ghostkey_check)
    => /\ GhostBlock(matrix_new_state) => (vetoed /\ reports = <<>>)
       /\ ~GhostBlock(matrix_new_state)
             => (~vetoed /\ matrix_previous_state = matrix_new_state)

\* a vetoed cycle while a key is pending whose debounce time has passed
C5_Witness ==
    /\ AfterCycle /\ cfg.ghostkey_check /\ vetoed
    /\ GhostBlock(matrix_new_state)
    /\ \E k \in Keys :
          /\ TestBit(matrix_unstable_state[ColOf(k)], RowOf(k))
          /\ Level(matrix_previous_state, k) # Level(matrix_stable_state, k)
          /\ raw_since[k] >= 0
          /\ (clock - raw_since[k]) \div CyclesPerUs
                 >= ThresholdUs(Level(matrix_previous_state, k))

(***************************************************************************)
(* C6  No spurious re-reports: when a key's debounce window closes in a    *)
(* cycle and its raw level equals its stable_state bit, no transition is   *)
(* emitted for it and the bit is unchanged; every transition reports the   *)
(* opposite of the key's confirmed level, so a key is never reported       *)
(* pressed (or released) twice in a row.                                   *)
(***************************************************************************)
C6_NoSpuriousReports ==
    [][UpdateStep =>
         /\ \A k \in settled' :
               Level(matrix_new_state', k) = Level(matrix_stable_state, k)
               => /\ ~Reported(k)'
                  /\ Level(matrix_stable_state', k) = Level(matrix_stable_state, k)
         /\ \A i \in 1 .. NumTransitions' :
               Transition(i)'.pressed
                 # Level(matrix_stable_state,
                         CycIdx(Transition(i)'.col, Transition(i)'.row))]_vars

\* a debounce window closed on a key without a transition
C6_Witness ==
    /\ AfterCycle /\ ~vetoed
    /\ \E k \in settled :
          /\ ~Reported(k)
          /\ Level(matrix_new_state, k) = Level(matrix_stable_state, k)

(***************************************************************************)
(* C7  Idle/Active timing: input_kbd_matrix_poll returns only in a cycle   *)
(* whose scan saw no active key and whose deadline has passed; a cycle     *)
(* whose scan saw an active row, vetoed or not, sets the deadline to now   *)
(* plus idle_timeout; and the loop is left no later than idle_timeout plus *)
(* one poll period after the deadline was last set.                        *)
(***************************************************************************)
\* input_kbd_matrix_poll has just returned
LeftPoll == scans > 0 /\ pc = "arm"

C7_ExitOnlyWhenIdle ==
    LeftPoll => (~key_pressed /\ UptimeUs(clock) >= poll_time_end)

C7_ActivityResetsDeadline ==
    (AfterCycle /\ key_pressed)
    => /\ pc = "sleep"
       /\ poll_time_end = UptimeUs(clock) + cfg.poll_timeout_ms * USEC_PER_MSEC

C7_ExitWithinOnePeriod ==
    LeftPoll => UptimeUs(clock) <= poll_time_end + cfg.poll_period_us

C7_IdleActiveTiming ==
    C7_ExitOnlyWhenIdle /\ C7_ActivityResetsDeadline /\ C7_ExitWithinOnePeriod

\* as amended: a cycle without an active key leaves the loop as soon as the
\* deadline has passed, which is no later than one poll period plus that
\* cycle's processing time after the deadline
C7_ExitAtFirstCheck ==
    /\ (AfterCycle /\ ~key_pressed /\ UptimeUs(clock) >= poll_time_end)
          => pc = "arm"
    /\ LeftPoll
          => UptimeUs(clock) <= poll_time_end + cfg.poll_period_us + elapsed_us

C7_IdleActiveTimingAmended ==
    C7_ExitOnlyWhenIdle /\ C7_ActivityResetsDeadline /\ C7_ExitAtFirstCheck

\* the loop was left later than one poll period after the deadline, by a
\* cycle shorter than the poll period that followed a shortened sleep
C7_Witness ==
    /\ LeftPoll
    /\ elapsed_us < cfg.poll_period_us
    /\ wait_period_us < cfg.poll_period_us
    /\ UptimeUs(clock) > poll_time_end + cfg.poll_period_us

(***************************************************************************)
(* C8  Sleep clamping: the sleep of an Active cycle is poll_period minus   *)
(* the cycle's processing time, at least one millisecond and at most       *)
(* poll_period; when the processing time exceeds poll_period the sleep is  *)
(* one millisecond.                                                        *)
(***************************************************************************)
Max(a, b) == IF a > b THEN a ELSE b

\* the sleep the claim describes for a processing time
ClaimedSleepUs(processing_us) ==
    IF processing_us > cfg.poll_period_us THEN USEC_PER_MSEC
    ELSE Min(cfg.poll_period_us,
             Max(USEC_PER_MSEC, cfg.poll_period_us - processing_us))

C8_SleepClamping ==
    (scans > 0 /\ pc = "sleep") => wait_period_us = ClaimedSleepUs(elapsed_us)

(***************************************************************************)
(* C9  Wake coalescing without loss: the wake signal never blocks and the  *)
(* semaphore never counts above one; it counts one exactly when a signal   *)
(* was raised since the thread last took it, wherever the thread stands;   *)
(* a take returns only from the Idle wait, consumes every signal raised    *)
(* so far, and the next take waits for a new signal.                       *)
(***************************************************************************)
C9_SignalPending ==
    /\ poll_lock \in {0, 1}
    /\ (poll_lock = 1) <=> (gives > 0)
    /\ ENABLED PollStart
    /\ (pc = "take" /\ gives > 0) => ENABLED ThreadTake
    /\ (pc = "take" /\ gives = 0) => ~ENABLED ThreadTake

C9_OneWakePerTake ==
    /\ (poll_lock' < poll_lock \/ gives' < gives)
          => (pc = "take" /\ pc' = "disarm" /\ poll_lock' = 0 /\ gives' = 0)
    /\ (pc = "take" /\ pc' # pc) => (poll_lock = 1 /\ poll_lock' = 0)
    /\ gives' > gives => (poll_lock' = 1 /\ pc' = pc)

C9_WakeCoalescing == []C9_SignalPending /\ [][C9_OneWakePerTake]_vars

\* several wake signals are pending as one while the thread polls
C9_Witness == gives >= 2 /\ poll_lock = 1 /\ pc = "sleep"

(***************************************************************************)
(* C10  Event ordering: the reports of one scan cycle come in triples      *)
(* X = column, Y = row, key value with sync, the keys in increasing column *)
(* and, within a column, increasing row order; reports are emitted only by *)
(* a scan cycle of the polling thread, one cycle at a time.                *)
(***************************************************************************)
C10_Triples ==
    /\ Len(reports) % 3 = 0
    /\ \A i \in 1 .. NumTransitions :
          /\ reports[3 * i - 2].code = "INPUT_ABS_X"
          /\ reports[3 * i - 2].value \in Cols
          /\ ~reports[3 * i - 2].sync
          /\ reports[3 * i - 1].code = "INPUT_ABS_Y"
          /\ reports[3 * i - 1].value \in Rows
          /\ ~reports[3 * i - 1].sync
          /\ reports[3 * i].code = "INPUT_BTN_TOUCH"
          /\ reports[3 * i].sync

C10_ColumnMajor ==
    \A i, j \in 1 .. NumTransitions :
        i < j => \/ Transition(i).col < Transition(j).col
                 \/ /\ Transition(i).col = Transition(j).col
                    /\ Transition(i).row < Transition(j).row

\* the keys reported are the keys whose confirmed state the cycle changed
C10_ReportsOfThisCycle ==
    /\ reports' # reports => (pc = "poll" /\ scans' = scans + 1)
    /\ scans' = scans + 1
          => \A k \in Keys :
                Reported(k)' <=> (Level(matrix_stable_state', k)
                                    # Level(matrix_stable_state, k))

C10_EventOrdering ==
    [](C10_Triples /\ C10_ColumnMajor) /\ [][C10_ReportsOfThisCycle]_vars

\* one cycle confirms two keys of one column and a key of the next column
C10_Witness ==
    /\ AfterCycle
    /\ NumTransitions >= 3
    /\ \E i, j \in 1 .. NumTransitions :
          Transition(i).col = Transition(j).col /\ Transition(i).row # Transition(j).row
    /\ \E i, j \in 1 .. NumTransitions : Transition(i).col # Transition(j).col

(***************************************************************************)
(* C11  Detect-mode protocol: the thread calls set_detect_mode(true),      *)
(* after drive_column(ALL), each time it enters Idle and                   *)
(* set_detect_mode(false) each time it enters Active; the calls alternate  *)
(* true, false, true, ... starting with true; a raw scan runs only while   *)
(* detect mode is disabled.                                                *)
(***************************************************************************)
\* the thread makes a set_detect_mode call in this step
DetectCall == pc \in {"detect", "disarm"} /\ pc' # pc

C11_ModeByPosition ==
    /\ pc \in {"arm", "detect"} => detect_mode \in {"unset", "disabled"}
    /\ pc \in {"take", "disarm"} => (detect_mode = "enabled" /\ drive = "ALL")
    /\ pc \in {"poll", "sleep"} => detect_mode = "disabled"
    /\ (detect_mode = "unset") <=> (scans = 0 /\ pc \in {"arm", "detect"})

C11_CallsAlternate ==
    \* each call reverses the mode, the first one (from "unset") enabling it
    /\ DetectCall => /\ detect_mode' # detect_mode
                     /\ detect_mode' \in {"enabled", "disabled"}
                     /\ detect_mode = "unset" => detect_mode' = "enabled"
    /\ detect_mode' # detect_mode => DetectCall
    \* enabling: on the way to the Idle wait, the columns already driven
    /\ (DetectCall /\ detect_mode' = "enabled")
          => (drive = "ALL" /\ drive' = "ALL" /\ pc' = "take")
    \* disabling: on the way into input_kbd_matrix_poll, after a take
    /\ (DetectCall /\ detect_mode' = "disabled") => (pc = "disarm" /\ pc' = "poll")
    /\ (pc = "take" /\ pc' # pc) => pc' = "disarm"
    \* every raw scan runs with detect mode disabled
    /\ scans' # scans => (detect_mode = "disabled" /\ detect_mode' = "disabled")

C11_DetectModeProtocol == []C11_ModeByPosition /\ [][C11_CallsAlternate]_vars

\* back in Idle after a round of polling, detect mode enabled a second time
C11_Witness == scans > 0 /\ pc = "take" /\ detect_mode = "enabled" /\ drive = "ALL"

(***************************************************************************)
(* C12  Unstable bit cleared on window close: whenever the debounce pass   *)
(* finds that an unstable key's elapsed time has reached its threshold,    *)
(* the key's bit in unstable_state is cleared in that cycle, whether the   *)
(* key reads pressed or released; so after every update only keys still    *)
(* waiting for their threshold have their bit set.                         *)
(***************************************************************************)
C12_UnstableClearedOnClose ==
    (AfterCycle /\ ~vetoed)
    => \A k \in Keys :
          /\ k \in settled => ~Level(matrix_unstable_state, k)
          /\ Level(matrix_unstable_state, k) => k \notin settled

\* the pressed half of C12: a window that closes at the pressed level clears
C12_ClearedWhenPressed ==
    (AfterCycle /\ ~vetoed)
    => \A k \in settled :
          Level(matrix_new_state, k) => ~Level(matrix_unstable_state, k)

(***************************************************************************)
(* C13  Confirmed state and events move together: a bit of stable_state    *)
(* changes only in the debounce pass of a scan cycle; each changed bit     *)
(* comes with exactly one transition of that key, whose pressed value is   *)
(* the new value of the bit; no transition is emitted without such a       *)
(* change; so the transitions of a key alternate pressed, released, ...,   *)
(* starting with pressed.                                                  *)
(***************************************************************************)
\* number of transitions of the last cycle that are about key k
NumReported(k) ==
    Cardinality({i \in 1 .. NumTransitions :
                    CycIdx(Transition(i).col, Transition(i).row) = k})

C13_FlipWithEvent ==
    /\ matrix_stable_state' # matrix_stable_state
          => (pc = "poll" /\ scans' = scans + 1 /\ ~vetoed')
    /\ scans' = scans + 1
          => \A k \in Keys :
                LET flipped == Level(matrix_stable_state', k)
                                  # Level(matrix_stable_state, k)
                IN  /\ NumReported(k)' = (IF flipped THEN 1 ELSE 0)
                    /\ \A i \in 1 .. NumTransitions' :
                          CycIdx(Transition(i)'.col, Transition(i)'.row) = k
                          => Transition(i)'.pressed = Level(matrix_stable_state', k)

C13_Alternate ==
    \A k \in Keys :
        last_event'[k] # last_event[k]
        => /\ Reported(k)'
           /\ last_event'[k] = (IF last_event[k] = "pressed"
                                THEN "released" ELSE "pressed")

C13_EventHistory ==
    \A k \in Keys :
        /\ last_event[k] = "pressed" <=> Level(matrix_stable_state, k)
        /\ (scans > 0 /\ Reported(k)) =>
              last_event[k] = (IF Level(matrix_stable_state, k)
                               THEN "pressed" ELSE "released")

C13_StateAndEvents ==
    []C13_EventHistory /\ [][C13_FlipWithEvent /\ C13_Alternate]_vars

\* a key has been reported pressed and then released
C13_Witness ==
    \E k \in Keys : AfterCycle /\ Reported(k) /\ last_event[k] = "released"

(***************************************************************************)
(* C14  Ghosting detector correctness: input_kbd_matrix_ghosting returns   *)
(* true exactly when two distinct columns of the snapshot have more than   *)
(* one active row in common; skipping the columns whose mask is zero does  *)
(* not change the result; the snapshot is left as it was.                  *)
(***************************************************************************)
\* the detector without the `continue` on an empty column
RECURSIVE GhostingEveryColumn(_, _)
GhostingEveryColumn(state, c) ==
    IF c >= cfg.col_size THEN FALSE
    ELSE IF GhostingInner(state, c, c + 1) THEN TRUE
    ELSE GhostingEveryColumn(state, c + 1)

C14_DetectsBlocks ==
    pc = "ghosting_done"
    => /\ vetoed <=> GhostBlock(matrix_new_state)
       /\ vetoed <=> GhostingEveryColumn(matrix_new_state, 0)

C14_SnapshotKept ==
    pc' = "ghosting_done" => matrix_new_state' = matrix_new_state

C14_GhostingDetector == []C14_DetectsBlocks /\ [][C14_SnapshotKept]_vars

\* a block between the outer columns, the column between them empty
C14_Witness ==
    /\ pc = "ghosting_done" /\ vetoed
    /\ matrix_new_state[1] = 0
    /\ GhostBlock(matrix_new_state)

\* two columns with exactly one row in common are no block
C14_WitnessOneCommonRow ==
    /\ pc = "ghosting_done" /\ ~vetoed
    /\ BitAnd(matrix_new_state[0], matrix_new_state[2]) = 2

(***************************************************************************)
(* C15  Frame of a vetoed cycle: a scan cycle vetoed for ghosting leaves   *)
(* previous_state, unstable_state, stable_state, every scan_cycle_idx      *)
(* entry and every slot of the timestamp ring as they were; the scan has   *)
(* overwritten matrix_new_state; the cycle's key_pressed result is still   *)
(* returned and moves the idle deadline.                                   *)
(***************************************************************************)
VetoedStep == scans' = scans + 1 /\ vetoed'

C15_VetoedCycleFrame ==
    [][VetoedStep =>
          /\ matrix_previous_state' = matrix_previous_state
          /\ matrix_unstable_state' = matrix_unstable_state
          /\ matrix_stable_state' = matrix_stable_state
          /\ scan_cycle_idx' = scan_cycle_idx
          /\ scan_clk_cycle' = scan_clk_cycle
          /\ reports' = <<>>
          /\ GhostBlock(matrix_new_state')
          /\ key_pressed'
          /\ pc' = "sleep"
          /\ poll_time_end'
                = UptimeUs(clock') + cfg.poll_timeout_ms * USEC_PER_MSEC]_vars

\* a vetoed cycle whose snapshot differs from previous_state, with a key
\* waiting in unstable_state, past the deadline the loop had before
C15_Witness ==
    /\ AfterCycle /\ vetoed /\ key_pressed
    /\ matrix_new_state # matrix_previous_state
    /\ \E c \in Cols : matrix_unstable_state[c] # 0
    /\ poll_time_end > cfg.poll_timeout_ms * USEC_PER_MSEC

(***************************************************************************)
(* C16  Timestamp ring integrity: each scan cycle writes the current tick  *)
(* value into exactly one ring slot and advances the cursor by one, with   *)
(* wrap-around; the cursor stays below the ring capacity; and, where the   *)
(* capacity exceeds the longest debounce time divided by the poll period,  *)
(* the slot that scan_cycle_idx names for a key that is still unstable     *)
(* holds the timestamp of the cycle that stamped the key.                  *)
(***************************************************************************)
\* capacity > worst-case debounce time / poll period
RingLargeEnough ==
    INPUT_KBD_MATRIX_SCAN_OCURRENCES * cfg.poll_period_us
        > Max(cfg.debounce_down_ms, cfg.debounce_up_ms) * USEC_PER_MSEC

C16_CursorInRing == scan_cycles_idx \in Slots

C16_CursorAdvances ==
    scans' = scans + 1
    => scan_cycles_idx' = (scan_cycles_idx + 1) % INPUT_KBD_MATRIX_SCAN_OCURRENCES

C16_OneSlotPerCycle ==
    scans' = scans + 1
    => /\ scan_clk_cycle'[scan_cycles_idx']
             = k_cycle_get_32(clock + ScanBusyCycles)
       /\ \A s \in Slots \ {scan_cycles_idx'} :
             scan_clk_cycle'[s] = scan_clk_cycle[s]

C16_StampKept ==
    RingLargeEnough
    => \A k \in Keys :
          (Level(matrix_unstable_state, k) /\ raw_since[k] >= 0)
          => scan_clk_cycle[scan_cycle_idx[k]] = k_cycle_get_32(raw_since[k])

C16_TimestampRing ==
    /\ [](C16_CursorInRing /\ C16_StampKept)
    /\ [][C16_CursorAdvances /\ C16_OneSlotPerCycle]_vars

\* what holds of the ring: the cursor part, and one slot per debounce pass
C16_OneSlotPerUpdate ==
    [][/\ C16_CursorAdvances
       /\ UpdateStep => C16_OneSlotPerCycle
       /\ VetoedStep => scan_clk_cycle' = scan_clk_cycle]_vars

(***************************************************************************)
(* C17  Order of steps in an Active cycle: the idle-deadline decision is   *)
(* taken right after the raw scan, before ghosting detection and the       *)
(* debounce update; a cycle that exits to Idle performs no debounce update *)
(* and emits no confirmed transition.                                      *)
(***************************************************************************)
\* the cycle of this step leaves input_kbd_matrix_poll
ExitStep == scans' = scans + 1 /\ pc' = "arm"

C17_ExitBeforeUpdate ==
    [][ExitStep =>
          /\ reports' = <<>>
          /\ update_clock' = update_clock
          /\ scan_clk_cycle' = scan_clk_cycle
          /\ matrix_previous_state' = matrix_previous_state
          /\ matrix_stable_state' = matrix_stable_state]_vars

\* as amended: the decision follows the whole of
\* input_kbd_matrix_check_key_events; the exiting cycle, which read no key
\* and so is never vetoed, has run the debounce update, stamped its ring
\* slot, and reports releases only
C17_ExitAfterUpdate ==
    [][ExitStep =>
          /\ ~key_pressed' /\ ~vetoed'
          /\ \A c \in Cols : matrix_new_state'[c] = 0
          /\ update_clock' = clock + ScanBusyCycles
          /\ scan_clk_cycle'[scan_cycles_idx'] = k_cycle_get_32(update_clock')
          /\ matrix_previous_state' = matrix_new_state'
          /\ \A i \in 1 .. NumTransitions' : ~Transition(i)'.pressed
          /\ \A k \in Keys :
                Reported(k)' <=> (Level(matrix_stable_state, k)
                                    /\ ~Level(matrix_stable_state', k))
          /\ poll_time_end' = poll_time_end
          /\ sys_timepoint_expired(clock', poll_time_end)]_vars

\* the loop was left by a cycle that reported a release
C17_Witness == LeftPoll /\ NumTransitions > 0 /\ ~vetoed /\ update_clock > 0

(***************************************************************************)
(* C18  Raw scan protocol: input_kbd_matrix_scan drives the columns        *)
(* 0 .. col_size-1 in increasing order, reads the rows exactly once after  *)
(* each drive_column and stores the reading, masked to 8 bits, in          *)
(* matrix_new_state[col]; it ends with drive_column(NONE); it returns true *)
(* exactly when some matrix_new_state[col] is non-zero; it changes none of *)
(* previous_state, unstable_state, stable_state, scan_cycle_idx and the    *)
(* timestamp ring.                                                         *)
(***************************************************************************)
\* the value read_row returned for column c in the finished scan
Reading(c) == api_calls[2 * c + 2].arg

C18_CallsInOrder ==
    /\ \A i \in 1 .. Len(api_calls) :
          IF i = 2 * cfg.col_size + 1
          THEN api_calls[i].op = "drive_column" /\ api_calls[i].arg = "NONE"
          ELSE IF i % 2 = 1
          THEN api_calls[i].op = "drive_column" /\ api_calls[i].arg = (i - 1) \div 2
          ELSE api_calls[i].op = "read_row"
    /\ Len(api_calls) <= 2 * cfg.col_size + 1
    /\ pc = "scan_done" => Len(api_calls) = 2 * cfg.col_size + 1

C18_ScanResult ==
    pc = "scan_done"
    => /\ drive = "NONE"
       /\ \A c \in Cols : matrix_new_state[c] = Reading(c) % 2 ^ 8
       /\ key_pressed <=> (\E c \in Cols : matrix_new_state[c] # 0)
       \* the scan as the polling cycle applies it
       /\ matrix_new_state = ScanNewState([c \in Cols |-> Reading(c)])
       /\ key_pressed = input_kbd_matrix_scan([c \in Cols |-> Reading(c)])
       /\ api_calls = ScanCalls([c \in Cols |-> Reading(c)], 0)

C18_ScanFrame ==
    UNCHANGED <<matrix_previous_state, matrix_unstable_state,
                matrix_stable_state, scan_cycle_idx, scan_clk_cycle,
                scan_cycles_idx>>

C18_RawScanProtocol ==
    [](C18_CallsInOrder /\ C18_ScanResult) /\ [][C18_ScanFrame]_vars

\* a finished scan of three columns that overwrote an older snapshot, one
\* reading with a line above bit 7 only, one with a key
C18_Witness ==
    /\ pc = "scan_done" /\ scans = 1 /\ cfg.col_size = 3
    /\ Reading(0) = 2 ^ 8 /\ matrix_new_state[0] = 0
    /\ matrix_new_state[2] # 0 /\ key_pressed

(***************************************************************************)
(* C19  No pending change is lost: after any sequence of scan cycles,      *)
(* vetoed or not, every key whose bit in previous_state differs from its   *)
(* bit in stable_state has its bit set in unstable_state; and after every  *)
(* cycle that was not vetoed previous_state equals matrix_new_state.       *)
(***************************************************************************)
\* key k's last accepted raw level is not the confirmed one
Pending(k) == Level(matrix_previous_state, k) # Level(matrix_stable_state, k)

C19_NoPendingChangeLost ==
    /\ \A c \in Cols :
          BitAnd(BitXor(matrix_previous_state[c], matrix_stable_state[c]),
                 BitNot8(matrix_unstable_state[c])) = 0
    /\ \A k \in Keys : Pending(k) => Level(matrix_unstable_state, k)
    /\ (AfterCycle /\ ~vetoed) => matrix_previous_state = matrix_new_state

\* a vetoed cycle has passed over a key that is still waiting
C19_Witness ==
    /\ AfterCycle /\ vetoed
    /\ \E k \in Keys : Pending(k) /\ Level(matrix_unstable_state, k)

(***************************************************************************)
(* C20  No key left pressed on Idle entry: provided idle_timeout exceeds   *)
(* debounce_up_time by at least one poll period and the ring capacity      *)
(* exceeds debounce_up_time divided by the poll period, every bit of       *)
(* stable_state is zero whenever input_kbd_matrix_poll returns to Idle.    *)
(***************************************************************************)
TimeoutCoversRelease ==
    /\ cfg.poll_timeout_ms * USEC_PER_MSEC
          >= cfg.debounce_up_ms * USEC_PER_MSEC + cfg.poll_period_us
    /\ INPUT_KBD_MATRIX_SCAN_OCURRENCES * cfg.poll_period_us
          > cfg.debounce_up_ms * USEC_PER_MSEC

C20_NoKeyLeftPressed ==
    (TimeoutCoversRelease /\ LeftPoll)
    => \A c \in Cols : matrix_stable_state[c] = 0

\* no cycle is held up for longer than the idle timeout leaves room for
NoLongCycle ==
    \A extra \in plat.extra_us :
        cfg.col_size * cfg.settle_time_us + extra + cfg.poll_period_us
            < cfg.poll_timeout_ms * USEC_PER_MSEC

\* the claim where two deadline decisions are less than the timeout apart
C20_NoKeyLeftPressedShortCycles ==
    (TimeoutCoversRelease /\ NoLongCycle /\ LeftPoll)
    => \A c \in Cols : matrix_stable_state[c] = 0

\* the loop is left after a key was reported pressed and released
C20_ReleasedBeforeIdle ==
    /\ TimeoutCoversRelease /\ NoLongCycle /\ LeftPoll
    /\ \E k \in Keys : last_event[k] = "released"

=============================================================================
